---------------------------- MODULE Spec2Model ----------------------------
(***************************************************************************)
(* A model of lofty-rs' MP4 audio property reader                          *)
(* (src/src/mp4/properties.rs): read_properties, mp4a_properties,          *)
(* alac_properties, Descriptor::read and AudioObjectType::try_from.        *)
(*                                                                         *)
(* The reader is a sequential program over a seekable byte stream.  The    *)
(* model follows it span by span.  The bytes that a span reads are chosen  *)
(* when the span reads them; the sample description (stsd) body, which the *)
(* code copies into an in-memory cursor, is modelled by its length stsdLen *)
(* and the cursor offset pos, so that a read past the end fails exactly    *)
(* where it fails in the code.                                             *)
(***************************************************************************)
EXTENDS Integers, Sequences, FiniteSets, TLC

(***************************************************************************)
(* Bounds of the model.                                                    *)
(***************************************************************************)
\* Longest piece of stream handed to Descriptor::read in SpecDescriptor.
MaxDescriptorStream == 5

(***************************************************************************)
(* Bit arithmetic on unsigned bytes.                                       *)
(***************************************************************************)
RECURSIVE BitOr(_, _)
BitOr(x, y) ==
    IF x = 0 THEN y
    ELSE IF y = 0 THEN x
    ELSE (IF x % 2 = 1 \/ y % 2 = 1 THEN 1 ELSE 0) + 2 * BitOr(x \div 2, y \div 2)

RECURSIVE BitAnd(_, _)
BitAnd(x, y) ==
    IF x = 0 \/ y = 0 THEN 0
    ELSE (IF x % 2 = 1 /\ y % 2 = 1 THEN 1 ELSE 0) + 2 * BitAnd(x \div 2, y \div 2)

\* x << n on a u8: the bits shifted out of the byte are lost.
Shl8(x, n) == (x * (2 ^ n)) % 256

\* x >> n
Shr(x, n) == x \div (2 ^ n)

\* `v as u8`
AsU8(v) == v % 256

(***************************************************************************)
(* Option<T> as a set with at most one element.                            *)
(***************************************************************************)
None == {}
Some(v) == {v}

(***************************************************************************)
(* A reader is the sequence of bytes from the cursor to the end of the     *)
(* stream.  Reading n bytes fails when fewer than n are left.              *)
(***************************************************************************)
Byte == 0..255

Min(a, b) == IF a < b THEN a ELSE b

\* The first n bytes of a stream, fewer when the stream ends before.
Take(bytes, n) == SubSeq(bytes, 1, Min(Len(bytes), n))

\* read_u24 / read_uint(3), big endian, of bytes i..i+2
ReadU24(bytes, i) == bytes[i] * 65536 + bytes[i + 1] * 256 + bytes[i + 2]

(***************************************************************************)
(* Descriptor::read.  One tag byte, then at most DescriptorLengthBytes     *)
(* length bytes, each giving its low 7 bits; the loop breaks on the first  *)
(* byte whose high bit is clear.  The result records how many bytes were   *)
(* taken from the reader.                                                  *)
(***************************************************************************)
DescriptorLengthBytes == 4

\* a shift by a whole byte
MutDescriptorAccumulate(size, b) == BitOr(size * 256, BitAnd(b, 127))

\* size = (size << 7) | u32::from(b & 0x7F)
DescriptorAccumulate(size, b) == BitOr(size * 128, BitAnd(b, 127))

\* if b & 0x80 == 0 { break }
DescriptorLastByte(b) == BitAnd(b, 128) = 0

RECURSIVE DescriptorLoop(_, _, _, _)
DescriptorLoop(bytes, idx, iter, size) ==
    IF iter = DescriptorLengthBytes
    THEN [ok |-> TRUE, size |-> size, consumed |-> idx - 1]
    ELSE IF idx > Len(bytes)
    THEN [ok |-> FALSE, size |-> 0, consumed |-> Len(bytes)]
    ELSE LET b == bytes[idx]
             s == DescriptorAccumulate(size, b)
         IN  IF DescriptorLastByte(b)
             THEN [ok |-> TRUE, size |-> s, consumed |-> idx]
             ELSE DescriptorLoop(bytes, idx + 1, iter + 1, s)

DescriptorRead(bytes) ==
    IF Len(bytes) = 0
    THEN [ok |-> FALSE, tag |-> 0, size |-> 0, consumed |-> 0]
    ELSE LET r == DescriptorLoop(bytes, 2, 0, 0)
         IN  [ok |-> r.ok, tag |-> bytes[1], size |-> r.size, consumed |-> r.consumed]

ELEMENTARY_DESCRIPTOR_TAG == 3
DECODER_CONFIG_TAG == 4
DECODER_SPECIFIC_DESCRIPTOR_TAG == 5

(***************************************************************************)
(* AudioObjectType::try_from and the tables of mp4a_properties.            *)
(***************************************************************************)
AudioObjectTypes == (1..9) \cup (12..17) \cup (19..30) \cup (32..46)

\* a range test in place of the match
MutTryFromOk(value) == value \in 0..46

TryFromOk(value) == value \in AudioObjectTypes

SAMPLE_RATES ==
    << 96000, 88200, 64000, 48000, 44100, 32000, 24000, 22050,
       16000, 12000, 11025, 8000, 7350, 0, 0 >>

\* properties.codec = match codec { ... }
CodecOf(codec) ==
    IF codec \in {64, 65, 102, 103, 104} THEN "AAC"
    ELSE IF codec \in {105, 107} THEN "MP3"
    ELSE "Unknown"

(***************************************************************************)
(* The first two bytes of the decoder specific descriptor.                 *)
(***************************************************************************)
\* let mut object_type = byte_a >> 3;
ObjectTypeField(a) == Shr(a, 3)

\* let mut frequency_index = (byte_a << 5) | (byte_b >> 7);   (u8 arithmetic)
FrequencyIndexField(a, b) == BitOr(Shl8(a, 5), Shr(b, 7))

\* object_type = 32 + ((byte_a & 7) | (byte_b >> 5));
ExtendedObjectType(a, b) == 32 + BitOr(BitAnd(a, 7), Shr(b, 5))

\* frequency_index = (byte_b >> 1) & 0x0F;
ExtendedFrequencyIndex(b) == BitAnd(Shr(b, 1), 15)

IsExtended(a) == ObjectTypeField(a) = 31

ObjectTypeOf(a, b) ==
    IF IsExtended(a) THEN ExtendedObjectType(a, b) ELSE ObjectTypeField(a)

FrequencyIndexOf(a, b) ==
    IF IsExtended(a) THEN ExtendedFrequencyIndex(b) ELSE FrequencyIndexField(a, b)

\* (remaining_sample_rate >> 1) | u32::from(byte_b & 1)
ExtendedExplicitRate(remaining, b) == BitOr(Shr(remaining, 1), BitAnd(b, 1))

(***************************************************************************)
(* Lines 439-471 as a function of the reader at the descriptor's content   *)
(* and of the sample rate read from the mp4a fixed fields.                 *)
(* status: "Ok", "Io" (the reader ended), "InvalidObjectType".             *)
(***************************************************************************)
DecodeSpecificConfig(bytes, rate) ==
    IF Len(bytes) < 2
    THEN [status |-> "Io", object_type |-> None, accepted |-> None,
          sample_rate |-> rate, consumed |-> Len(bytes)]
    ELSE LET a   == bytes[1]
             b   == bytes[2]
             ot  == ObjectTypeOf(a, b)
             fi  == FrequencyIndexOf(a, b)
         IN  IF ~TryFromOk(ot)
             THEN [status |-> "InvalidObjectType", object_type |-> Some(ot), accepted |-> None,
                   sample_rate |-> rate, consumed |-> 2]
             ELSE IF fi = 15
             THEN IF Len(bytes) < 5
                  THEN [status |-> "Io", object_type |-> Some(ot), accepted |-> Some(ot),
                        sample_rate |-> rate, consumed |-> Len(bytes)]
                  ELSE [status |-> "Ok", object_type |-> Some(ot), accepted |-> Some(ot),
                        sample_rate |-> IF IsExtended(a)
                                        THEN ExtendedExplicitRate(ReadU24(bytes, 3), b)
                                        ELSE ReadU24(bytes, 3),
                        consumed |-> 5]
             ELSE IF fi < Len(SAMPLE_RATES)
             THEN [status |-> "Ok", object_type |-> Some(ot), accepted |-> Some(ot),
                   sample_rate |-> SAMPLE_RATES[fi + 1], consumed |-> 2]
             ELSE [status |-> "Ok", object_type |-> Some(ot), accepted |-> Some(ot),
                   sample_rate |-> rate, consumed |-> 2]

(***************************************************************************)
(* The duration of line 314: duration * 1000 / u64::from(timescale), and   *)
(* the bitrate of lines 488-489 and 548.  Both divisions abort the program *)
(* when the divisor is 0.  The values drawn below keep duration * 1000 and *)
(* file_length * 8 under 2^31, where neither the u64 products nor the      *)
(* `as u32` of the bitrate lose bits.                                      *)
(***************************************************************************)
\* the division before the multiplication
MutDurationMillis(d, t) == (d \div t) * 1000

DurationMillis(d, t) == (d * 1000) \div t

\* bytes in place of bits
MutOverallBitrate(len, millis) == len \div millis

OverallBitrate(len, millis) == (len * 8) \div millis

\* With ALAC, we can expect the length to be exactly 88 (80 here ...)
AlacExpectedLength == 80

\* the bytes left after the current position in place of the length
MutAlacLengthMatches(len, at) == len - at = AlacExpectedLength

\* if data.seek(SeekFrom::End(0))? != 80 { return Ok(()) }
AlacLengthMatches(len, at) == len = AlacExpectedLength

(***************************************************************************)
(* The box reader (AtomInfo::read) on a reader with `avail` bytes left:    *)
(* 4 bytes of length and 4 of tag, and 8 more when the length field is 1.  *)
(***************************************************************************)
AtomHeaderSize(extended) == IF extended THEN 16 ELSE 8

AtomInfoReadOk(avail, extended) == avail >= AtomHeaderSize(extended)

(***************************************************************************)
(* Mp4Properties::default()                                                *)
(***************************************************************************)
DefaultProperties ==
    [ codec |-> "Unknown",
      extended_audio_object_type |-> None,
      duration |-> 0,
      overall_bitrate |-> 0,
      audio_bitrate |-> 0,
      sample_rate |-> 0,
      bit_depth |-> None,
      channels |-> 0 ]

(***************************************************************************)
(* The values the model draws for the fields of the input.                 *)
(***************************************************************************)
FileLengths == {1000, 1000000}
Versions == {0, 1}
Timescales == {0, 3, 1000}
Durations == {0, 5000, 10000}
StsdLens == {8, 20, 40, 50, 54, 57, 62, 77, 80, 96}
ChannelFields == {2, 257}
SampleRateFields == {12345, 44100}
CodecBytes == {0, 64, 105}
AverageBitrates == {0, 128000}
DescriptorTags ==
    {0, ELEMENTARY_DESCRIPTOR_TAG, DECODER_CONFIG_TAG, DECODER_SPECIFIC_DESCRIPTOR_TAG}
DescriptorLengths == {<<5>>, <<129, 2>>}
\* object types 0, 2 (with three low parts), 10, 11, 18, and the escape twice
ConfigFirstBytes == {0, 16, 18, 23, 80, 88, 144, 249, 252}
ConfigSecondBytes == {0, 128, 30, 224}
\* 44100 as three bytes
ConfigTail == <<0, 172, 68>>
AlsChannelFields == {1, 255}
AlacSampleSizes == {16, 24}
AlacChannels == {2}
AlacBitrates == {0, 256000}
AlacSampleRates == {44100}
Fourccs == {"mp4a", "alac", "esds", "free"}

VARIABLES
    pc,               \* the span of read_properties about to run
    result,           \* "running", "Ok", an error, or "panic"
    props,            \* let mut properties
    file_length,      \* argument file_length
    audio_track,      \* let mut audio_track
    mdhd,             \* whether mdhd is Some
    minf,             \* whether minf is Some
    version,          \* mdhd version byte
    timescale,        \* mdhd timescale
    duration,         \* mdhd duration field
    stsdLen,          \* length of the stsd body held by stsd_reader
    pos,              \* position of stsd_reader
    average_bitrate,  \* let average_bitrate
    object_type,      \* let mut object_type, None until it is decoded
    descriptor,       \* the last Descriptor read
    entry,            \* tag of the first stsd entry, "none" before it is read
    reader,           \* input of a call checked on its own
    outcome,          \* result of a call checked on its own
    traks,            \* argument traks: of each Trak, its mdia and what the stream holds in it
    data_len,         \* length of the stream behind data
    cursor,           \* position of data
    trak_index,       \* the track the for loop is at, 0 before the first
    read,             \* let mut read
    atom,             \* let atom, the last header read by the loop
    mdhd_start,       \* mdhd.start when mdhd is Some
    minf_start,       \* minf.start when minf is Some
    headers_read,     \* calls of AtomInfo::read made for the current mdia
    end,              \* argument end of parse_riff_info
    items,            \* tag.items of the RiffInfoList
    chunks,           \* let mut chunks, and where its header was read
    self,             \* the tag a tag operation is called on
    hist              \* the tags before the last calls, latest first

vars ==
    << pc, result, props, file_length, audio_track, mdhd, minf, version,
       timescale, duration, stsdLen, pos, average_bitrate, object_type,
       descriptor, entry, reader, outcome, traks, data_len, cursor, trak_index,
       read, atom, mdhd_start, minf_start, headers_read, end, items, chunks, self, hist >>

NoDescriptor == [tag |-> 0, size |-> 0]

NoAtom == [ident |-> "none", start |-> 0, len |-> 0, extended |-> FALSE]

\* The variables of the loop over the tracks where the loop is not modelled.
ScanIdle ==
    /\ traks = <<>>
    /\ data_len = 0
    /\ cursor = 0
    /\ trak_index = 0
    /\ read = 0
    /\ atom = NoAtom
    /\ mdhd_start = 0
    /\ minf_start = 0
    /\ headers_read = 0

\* Chunks::new(); no header read yet
NewChunks == [fourcc |-> <<0, 0, 0, 0>>, size |-> 0, start |-> None]

\* The variables of the chunk reader and of the tags where they are not used.
ApartIdle ==
    /\ end = 0
    /\ items = <<>>
    /\ chunks = NewChunks
    /\ self = <<>>
    /\ hist = <<>>

(***************************************************************************)
(* The state at line 277, after the loop over the tracks: audio_track,     *)
(* mdhd and minf hold what the loop found, in any combination.             *)
(***************************************************************************)
Init ==
    /\ pc = "check"
    /\ result = "running"
    /\ props = DefaultProperties
    /\ file_length \in FileLengths
    /\ audio_track \in BOOLEAN
    /\ mdhd \in BOOLEAN
    /\ minf \in BOOLEAN
    /\ version = 0
    /\ timescale = 0
    /\ duration = 0
    /\ stsdLen = 0
    /\ pos = 0
    /\ average_bitrate = 0
    /\ object_type = None
    /\ descriptor = NoDescriptor
    /\ entry = "none"
    /\ reader = <<>>
    /\ outcome = <<>>
    /\ ScanIdle
    /\ ApartIdle

\* if let Ok(esds) = AtomInfo::read(stsd): a header that cannot be read is
\* not an error of mp4a_properties or alac_properties.
HeaderError == "Ok"

\* the error swallowed
MutDescriptorError == "Ok"

\* Descriptor::read(stsd)?: the error is returned to the caller.
DescriptorError == "Err_Io"

\* Bytes left in stsd_reader; none when a seek went past the end.
Avail == IF pos > stsdLen THEN 0 ELSE stsdLen - pos

\* return from read_properties
Return(res) ==
    /\ pc' = "done"
    /\ result' = res

\* what the loop over the tracks leaves behind, and its own variables
scanned == << traks, data_len, cursor, trak_index, read, atom, mdhd_start,
              minf_start, headers_read >>

\* the variables of the chunk reader and of the tags
apart == << end, items, chunks, self, hist >>

inputs == << file_length, audio_track, mdhd, minf, scanned, apart >>
mdhdFields == << version, timescale, duration >>
harness == << reader, outcome >>

(***************************************************************************)
(* Lines 277-288: the checks after the scan of the tracks.                 *)
(***************************************************************************)
\* the media header looked for before the audio track
MutCheckAudioTrack ==
    /\ pc = "check"
    /\ IF ~mdhd THEN Return("Err_BadAtom")
       ELSE IF ~audio_track THEN Return("Err_NoAudioTracks")
       ELSE pc' = "mdhd" /\ result' = result
    /\ UNCHANGED << props, inputs, mdhdFields, entry, stsdLen, pos, average_bitrate,
                    object_type, descriptor, harness >>

CheckAudioTrack ==
    /\ pc = "check"
    /\ IF ~audio_track THEN Return("Err_NoAudioTracks")
       ELSE IF ~mdhd THEN Return("Err_BadAtom")
       ELSE pc' = "mdhd" /\ result' = result
    /\ UNCHANGED << props, inputs, mdhdFields, entry, stsdLen, pos, average_bitrate,
                    object_type, descriptor, harness >>

(***************************************************************************)
(* Lines 290-320: the media header.  truncated: the stream ends inside it. *)
(***************************************************************************)
ReadMdhd ==
    /\ pc = "mdhd"
    /\ \E truncated \in BOOLEAN, v \in Versions, t \in Timescales, d \in Durations :
          IF truncated
          THEN /\ Return("Err_Io")
               /\ UNCHANGED << props, mdhdFields >>
          ELSE /\ version' = v
               /\ timescale' = t
               /\ duration' = d
               /\ IF t = 0
                  THEN Return("panic") /\ props' = props
                  ELSE /\ pc' = "minf"
                       /\ result' = result
                       /\ props' = [DefaultProperties EXCEPT !.duration = DurationMillis(d, t)]
    /\ UNCHANGED << inputs, entry, stsdLen, pos, average_bitrate, object_type,
                    descriptor, harness >>

(***************************************************************************)
(* Lines 322-328: minf -> stbl -> stsd, and the copy of the stsd body.     *)
(* found: "error" (a seek or read fails), "none" (no stbl or no stsd),     *)
(* "stsd".                                                                 *)
(***************************************************************************)
LocateStsd ==
    /\ pc = "minf"
    /\ IF ~minf
       THEN Return("Ok") /\ UNCHANGED << stsdLen, pos >>
       ELSE \E found \in {"error", "none", "stsd"}, len \in StsdLens :
              CASE found = "error" -> Return("Err_Io") /\ UNCHANGED << stsdLen, pos >>
                [] found = "none"  -> Return("Ok") /\ UNCHANGED << stsdLen, pos >>
                [] found = "stsd"  -> /\ pc' = "stsd"
                                      /\ result' = result
                                      /\ stsdLen' = len
                                      /\ pos' = 0
    /\ UNCHANGED << props, inputs, mdhdFields, entry, average_bitrate, object_type,
                    descriptor, harness >>

(***************************************************************************)
(* Lines 330-350: the first entry of stsd and the dispatch on its tag.     *)
(***************************************************************************)
ReadStsdEntry ==
    /\ pc = "stsd"
    /\ \E extended \in BOOLEAN, fourcc \in Fourccs \cup {"freeform"} :
          IF ~AtomInfoReadOk(stsdLen - 8, extended)
          THEN Return("Err_Io") /\ UNCHANGED << pos, entry >>
          ELSE /\ pos' = 8 + AtomHeaderSize(extended)
               /\ entry' = fourcc
               /\ CASE fourcc = "mp4a" -> pc' = "mp4a" /\ result' = result
                    [] fourcc = "alac" -> pc' = "alac" /\ result' = result
                    [] OTHER -> Return("Ok")
    /\ UNCHANGED << props, inputs, mdhdFields, stsdLen, average_bitrate,
                    object_type, descriptor, harness >>

(***************************************************************************)
(* mp4a_properties, lines 373-392: the fixed fields.  The last byte read   *)
(* is 26 bytes after the entry's header; 2 more are skipped.               *)
(***************************************************************************)
Mp4aFixedFields ==
    /\ pc = "mp4a"
    /\ \E ch \in ChannelFields, sr \in SampleRateFields :
          IF Avail < 26
          THEN /\ Return("Err_Io")
               /\ props' = [props EXCEPT !.codec = "AAC"]
               /\ pos' = pos
          ELSE /\ pc' = "esds"
               /\ result' = result
               /\ props' = [props EXCEPT !.codec = "AAC",
                                         !.channels = AsU8(ch),
                                         !.sample_rate = sr]
               /\ pos' = pos + 28
    /\ UNCHANGED << inputs, mdhdFields, entry, stsdLen, average_bitrate, object_type,
                    descriptor, harness >>

(***************************************************************************)
(* Lines 395-399: the esds box header and its version and flags.  A header *)
(* that cannot be read ends mp4a_properties with Ok(()).                   *)
(***************************************************************************)
Mp4aEsds ==
    /\ pc = "esds"
    /\ \E extended \in BOOLEAN, fourcc \in Fourccs, zeroed \in BOOLEAN :
          IF ~AtomInfoReadOk(Avail, extended)
          THEN Return(HeaderError) /\ pos' = pos
          ELSE IF fourcc # "esds"
          THEN Return("Ok") /\ pos' = pos + AtomHeaderSize(extended)
          ELSE IF Avail < AtomHeaderSize(extended) + 4
          THEN Return("Err_Io") /\ pos' = pos + AtomHeaderSize(extended)
          ELSE /\ pos' = pos + AtomHeaderSize(extended) + 4
               /\ IF zeroed
                  THEN pc' = "es_descriptor" /\ result' = result
                  ELSE Return("Ok")
    /\ UNCHANGED << props, inputs, mdhdFields, entry, stsdLen, average_bitrate,
                    object_type, descriptor, harness >>

(***************************************************************************)
(* Lines 400-405: the elementary stream descriptor, then 3 bytes skipped.  *)
(***************************************************************************)
Mp4aEsDescriptor ==
    /\ pc = "es_descriptor"
    /\ \E tag \in DescriptorTags, len \in DescriptorLengths :
          LET d == DescriptorRead(Take(<<tag>> \o len, Avail))
          IN  IF ~d.ok
              THEN Return(DescriptorError) /\ UNCHANGED << pos, descriptor >>
              ELSE /\ descriptor' = [tag |-> d.tag, size |-> d.size]
                   /\ IF d.tag = ELEMENTARY_DESCRIPTOR_TAG
                      THEN /\ pc' = "config_descriptor"
                           /\ result' = result
                           /\ pos' = pos + d.consumed + 3
                      ELSE Return("Ok") /\ pos' = pos + d.consumed
    /\ UNCHANGED << props, inputs, mdhdFields, entry, stsdLen, average_bitrate,
                    object_type, harness >>

(***************************************************************************)
(* Lines 408-409: the decoder config descriptor.                           *)
(***************************************************************************)
Mp4aConfigDescriptor ==
    /\ pc = "config_descriptor"
    /\ \E tag \in DescriptorTags, len \in DescriptorLengths :
          LET d == DescriptorRead(Take(<<tag>> \o len, Avail))
          IN  IF ~d.ok
              THEN Return(DescriptorError) /\ UNCHANGED << pos, descriptor >>
              ELSE /\ descriptor' = [tag |-> d.tag, size |-> d.size]
                   /\ pos' = pos + d.consumed
                   /\ IF d.tag = DECODER_CONFIG_TAG
                      THEN pc' = "decoder_config" /\ result' = result
                      ELSE Return("Ok")
    /\ UNCHANGED << props, inputs, mdhdFields, entry, stsdLen, average_bitrate,
                    object_type, harness >>

(***************************************************************************)
(* Lines 410-428: codec byte, 8 bytes skipped, average bitrate, and the    *)
(* third descriptor.                                                       *)
(***************************************************************************)
Mp4aDecoderConfig ==
    /\ pc = "decoder_config"
    /\ \E codec \in CodecBytes, avg \in AverageBitrates,
          tag \in DescriptorTags, len \in DescriptorLengths :
          IF Avail < 13
          THEN /\ Return("Err_Io")
               /\ props' = IF Avail < 1 THEN props
                           ELSE [props EXCEPT !.codec = CodecOf(codec)]
               /\ UNCHANGED << pos, descriptor, average_bitrate >>
          ELSE LET d == DescriptorRead(Take(<<tag>> \o len, Avail - 13))
               IN  /\ props' = [props EXCEPT !.codec = CodecOf(codec)]
                   /\ average_bitrate' = avg
                   /\ IF ~d.ok
                      THEN Return(DescriptorError) /\ UNCHANGED << pos, descriptor >>
                      ELSE /\ descriptor' = [tag |-> d.tag, size |-> d.size]
                           /\ pos' = pos + 13 + d.consumed
                           /\ result' = result
                           /\ pc' = IF d.tag = DECODER_SPECIFIC_DESCRIPTOR_TAG
                                    THEN "decoder_specific"
                                    ELSE "bitrate"
    /\ UNCHANGED << inputs, mdhdFields, entry, stsdLen, object_type, harness >>

(***************************************************************************)
(* Lines 439-471: object type and sample rate of the decoder specific      *)
(* descriptor.                                                             *)
(***************************************************************************)
\* the assignments of lines 452-471 to properties
ApplySpecificConfig(p, r) ==
    [p EXCEPT !.extended_audio_object_type = IF r.accepted = None THEN @ ELSE r.accepted,
              !.sample_rate = r.sample_rate]

Mp4aDecoderSpecific ==
    /\ pc = "decoder_specific"
    /\ \E a \in ConfigFirstBytes, b \in ConfigSecondBytes :
          LET r == DecodeSpecificConfig(Take(<<a, b>> \o ConfigTail, Avail),
                                        props.sample_rate)
          IN  /\ object_type' = r.object_type
              /\ pos' = pos + r.consumed
              /\ props' = ApplySpecificConfig(props, r)
              /\ CASE r.status = "Io" -> Return("Err_Io")
                   [] r.status = "InvalidObjectType" -> Return("Err_InvalidObjectType")
                   [] OTHER -> /\ result' = result
                               /\ pc' = IF r.object_type = Some(36) THEN "als" ELSE "bitrate"
    /\ UNCHANGED << inputs, mdhdFields, entry, stsdLen, average_bitrate, descriptor, harness >>

(***************************************************************************)
(* Lines 474-485: the ALS identifier and its sample rate and channels.     *)
(* `as u8 + 1` overflows at 255: a build with overflow checks aborts, one  *)
(* without wraps to 0.                                                     *)
(***************************************************************************)
Mp4aAls ==
    /\ pc = "als"
    /\ \E matches \in BOOLEAN, sr \in SampleRateFields, ch \in AlsChannelFields,
          checked \in BOOLEAN :
          IF Avail < 5
          THEN Return("Err_Io") /\ UNCHANGED << props, pos >>
          ELSE IF ~matches
          THEN /\ pc' = "bitrate"
               /\ result' = result
               /\ pos' = pos + 5
               /\ props' = props
          ELSE IF Avail < 15
          THEN /\ Return("Err_Io")
               /\ pos' = pos
               /\ props' = IF Avail < 9 THEN props ELSE [props EXCEPT !.sample_rate = sr]
          ELSE /\ pos' = pos + 15
               /\ IF AsU8(ch) + 1 > 255 /\ checked
                  THEN Return("panic") /\ props' = [props EXCEPT !.sample_rate = sr]
                  ELSE /\ pc' = "bitrate"
                       /\ result' = result
                       /\ props' = [props EXCEPT !.sample_rate = sr,
                                                 !.channels = AsU8(AsU8(ch) + 1)]
    /\ UNCHANGED << inputs, mdhdFields, entry, stsdLen, average_bitrate, object_type,
                    descriptor, harness >>

(***************************************************************************)
(* Lines 488-500: the bitrates, and the return of mp4a_properties.         *)
(***************************************************************************)
Mp4aBitrate ==
    /\ pc = "bitrate"
    /\ IF props.duration = 0
       THEN Return("panic") /\ props' = props
       ELSE /\ Return("Ok")
            /\ props' = IF average_bitrate > 0
                        THEN [props EXCEPT
                                 !.overall_bitrate = OverallBitrate(file_length, props.duration),
                                 !.audio_bitrate = average_bitrate \div 1000]
                        ELSE props
    /\ UNCHANGED << inputs, mdhdFields, entry, stsdLen, pos, average_bitrate, object_type,
                    descriptor, harness >>

(***************************************************************************)
(* alac_properties.  SeekFrom::End(0) returns the length of the reader;    *)
(* when it is the expected one the reader is moved to offset 44, where the *)
(* second alac box starts.  After that box's header: 9 bytes skipped,      *)
(* sample size, 3 skipped, channels, 6 skipped, the overall bitrate, then  *)
(* audio bitrate and sample rate of 4 bytes each.                          *)
(***************************************************************************)
AlacProperties ==
    /\ pc = "alac"
    /\ IF ~AlacLengthMatches(stsdLen, pos)
       THEN Return("Ok") /\ pos' = stsdLen /\ props' = props
       ELSE \E extended \in BOOLEAN, fourcc \in Fourccs, size \in AlacSampleSizes,
               ch \in AlacChannels, rate \in AlacBitrates, sr \in AlacSampleRates :
          LET avail == IF stsdLen < 44 THEN 0 ELSE stsdLen - 44
              left == avail - AtomHeaderSize(extended)
              p1 == [props EXCEPT !.codec = "ALAC"]
              p2 == [p1 EXCEPT !.bit_depth = Some(size)]
              p3 == [p2 EXCEPT !.channels = ch]
              p4 == [p3 EXCEPT !.overall_bitrate = OverallBitrate(file_length, props.duration)]
              p5 == [p4 EXCEPT !.audio_bitrate = rate \div 1000]
              p6 == [p5 EXCEPT !.sample_rate = sr]
          IN  /\ pos' = 44
              /\ IF ~AtomInfoReadOk(avail, extended)
                 THEN Return(HeaderError) /\ props' = props
                 ELSE IF fourcc # "alac"
                 THEN Return("Ok") /\ props' = props
                 ELSE IF left < 10
                 THEN Return("Err_Io") /\ props' = p1
                 ELSE IF left < 14
                 THEN Return("Err_Io") /\ props' = p2
                 ELSE IF props.duration = 0
                 THEN Return("panic") /\ props' = p3
                 ELSE IF left < 24
                 THEN Return("Err_Io") /\ props' = p4
                 ELSE IF left < 28
                 THEN Return("Err_Io") /\ props' = p5
                 ELSE Return("Ok") /\ props' = p6
    /\ UNCHANGED << inputs, mdhdFields, entry, stsdLen, average_bitrate, object_type,
                    descriptor, harness >>

Next ==
    \/ CheckAudioTrack
    \/ ReadMdhd
    \/ LocateStsd
    \/ ReadStsdEntry
    \/ Mp4aFixedFields
    \/ Mp4aEsds
    \/ Mp4aEsDescriptor
    \/ Mp4aConfigDescriptor
    \/ Mp4aDecoderConfig
    \/ Mp4aDecoderSpecific
    \/ Mp4aAls
    \/ Mp4aBitrate
    \/ AlacProperties

Spec == Init /\ [][Next]_vars

(***************************************************************************)
(* The loop over the tracks, lines 227-275.                                *)
(*                                                                         *)
(* The stream is a row of trak boxes.  A trak is 8 bytes of header and,    *)
(* when it has one, its mdia box: 8 bytes of header and the boxes listed.  *)
(* Every box of the stream has its declared length; a minf box holds the   *)
(* boxes of `nested` after its header.  Trak.mdia is the start and the     *)
(* length of that mdia box.                                                *)
(***************************************************************************)
MdhdBox ==
    [ident |-> "mdhd", len |-> 32, extended |-> FALSE, handler |-> "none", nested |-> <<>>]

\* 8 bytes of header, 8 bytes before the handler type, the type, 13 more
HdlrBox(handler_type) ==
    [ident |-> "hdlr", len |-> 33, extended |-> FALSE, handler |-> handler_type,
     nested |-> <<>>]

FreeBox ==
    [ident |-> "free", len |-> 16, extended |-> FALSE, handler |-> "none", nested |-> <<>>]

\* AtomIdent::Freeform, with the 64-bit length
FreeformBox ==
    [ident |-> "----", len |-> 24, extended |-> TRUE, handler |-> "none", nested |-> <<>>]

StblBox ==
    [ident |-> "stbl", len |-> 40, extended |-> FALSE, handler |-> "none", nested |-> <<>>]

RECURSIVE SumLen(_)
SumLen(boxes) ==
    IF boxes = <<>> THEN 0 ELSE Head(boxes).len + SumLen(Tail(boxes))

MinfBox(inside) ==
    [ident |-> "minf", len |-> 8 + SumLen(inside), extended |-> FALSE, handler |-> "none",
     nested |-> inside]

ChildBoxes ==
    { MdhdBox, HdlrBox("soun"), HdlrBox("vide"), FreeBox, FreeformBox,
      MinfBox(<<StblBox>>), MinfBox(<<FreeBox, HdlrBox("soun")>>) }

\* how many boxes the mdia of the last track holds, and the mdia of one before it
LastChildCounts == 0..3
EarlierChildCounts == 0..2

MdiaLayouts(counts) == UNION { [1..n -> ChildBoxes] : n \in counts }

TraksWith(counts) ==
    {[mdia |-> None]} \cup { [mdia |-> Some(c)] : c \in MdiaLayouts(counts) }

TrakLists ==
    { <<t>> : t \in TraksWith(LastChildCounts) }
        \cup { <<e, t>> : e \in TraksWith(EarlierChildCounts), t \in TraksWith(LastChildCounts) }

\* bytes missing at the end of the stream
Truncations == {0, 20}

\* the boxes of trak.mdia, none when the track has no mdia
Children(trak) == IF trak.mdia = None THEN <<>> ELSE CHOOSE c \in trak.mdia : TRUE

TrakLen(trak) == 8 + (IF trak.mdia = None THEN 0 ELSE 8 + SumLen(Children(trak)))

RECURSIVE TrakStart(_, _)
TrakStart(ts, i) == IF i = 1 THEN 0 ELSE TrakStart(ts, i - 1) + TrakLen(ts[i - 1])

\* mdia.start and mdia.len of Trak i
MdiaStart(ts, i) == TrakStart(ts, i) + 8

MdiaLen(ts, i) == 8 + SumLen(Children(ts[i]))

StreamLen(ts) == TrakStart(ts, Len(ts) + 1)

NoBox ==
    [ident |-> "none", len |-> 0, extended |-> FALSE, handler |-> "none", nested |-> <<>>]

\* The box whose header starts at offset off, among boxes laid out from base
\* on and the boxes nested in them.
RECURSIVE BoxAt(_, _, _)
BoxAt(boxes, base, off) ==
    IF boxes = <<>>
    THEN [found |-> FALSE, start |-> off, box |-> NoBox]
    ELSE LET b == Head(boxes)
         IN  IF off = base
             THEN [found |-> TRUE, start |-> base, box |-> b]
             ELSE IF off > base /\ off < base + b.len
             THEN BoxAt(b.nested, base + AtomHeaderSize(b.extended), off)
             ELSE BoxAt(Tail(boxes), base + b.len, off)

\* skip_unneeded(data, ext, len): the position after it, from the position
\* after the header
SkipUnneeded(at, ext, len) == at + len - AtomHeaderSize(ext)

\* the state the codec extraction keeps, which the loop does not touch
extraction ==
    << props, mdhdFields, stsdLen, pos, average_bitrate, object_type, descriptor,
       entry, harness, file_length, apart >>

InitScan ==
    /\ pc = "traks"
    /\ result = "running"
    /\ props = DefaultProperties
    /\ file_length \in {1000}
    /\ audio_track = FALSE
    /\ mdhd = FALSE
    /\ minf = FALSE
    /\ version = 0
    /\ timescale = 0
    /\ duration = 0
    /\ stsdLen = 0
    /\ pos = 0
    /\ average_bitrate = 0
    /\ object_type = None
    /\ descriptor = NoDescriptor
    /\ entry = "none"
    /\ reader = <<>>
    /\ outcome = <<>>
    /\ traks \in TrakLists
    /\ \E missing \in Truncations :
          data_len = IF StreamLen(traks) < missing THEN 0 ELSE StreamLen(traks) - missing
    /\ cursor = 0
    /\ trak_index = 0
    /\ read = 0
    /\ atom = NoAtom
    /\ mdhd_start = 0
    /\ minf_start = 0
    /\ headers_read = 0
    /\ ApartIdle

(***************************************************************************)
(* Lines 233-240: the next track that has an mdia, the break once the      *)
(* audio track is found, and the seek to the first box of the mdia.        *)
(***************************************************************************)
ScanNextTrak ==
    /\ pc = "traks"
    /\ LET later == { j \in (trak_index + 1)..Len(traks) : traks[j].mdia # None }
       IN  IF audio_track \/ later = {}
           THEN /\ pc' = "check"
                /\ UNCHANGED << trak_index, cursor, read, headers_read >>
           ELSE LET j == CHOOSE k \in later : \A l \in later : k <= l
                IN  /\ trak_index' = j
                    /\ cursor' = MdiaStart(traks, j) + 8
                    /\ read' = 8
                    /\ headers_read' = 0
                    /\ pc' = IF 8 < MdiaLen(traks, j) THEN "mdia" ELSE "traks"
    /\ UNCHANGED << result, audio_track, mdhd, minf, traks, data_len, atom,
                    mdhd_start, minf_start, extraction >>

(***************************************************************************)
(* Lines 241-274: one turn of the while loop.  A read past the end of the  *)
(* stream fails; a seek does not.                                          *)
(***************************************************************************)
ScanChild ==
    /\ pc = "mdia"
    /\ LET at      == BoxAt(Children(traks[trak_index]), MdiaStart(traks, trak_index) + 8,
                            cursor)
           b       == at.box
           body    == cursor + AtomHeaderSize(b.extended)
           counted == read + b.len
           again   == IF counted < MdiaLen(traks, trak_index) THEN "mdia" ELSE "traks"
       IN  IF ~at.found \/ ~AtomInfoReadOk(data_len - cursor, b.extended)
           THEN /\ Return("Err_Io")
                /\ UNCHANGED << audio_track, mdhd, minf, cursor, read, atom, mdhd_start,
                                minf_start, headers_read >>
           ELSE /\ atom' = [ident |-> b.ident, start |-> at.start, len |-> b.len,
                            extended |-> b.extended]
                /\ read' = counted
                /\ headers_read' = headers_read + 1
                /\ CASE b.ident = "mdhd" ->
                          /\ cursor' = SkipUnneeded(body, b.extended, b.len)
                          /\ mdhd' = TRUE
                          /\ mdhd_start' = at.start
                          /\ pc' = again
                          /\ UNCHANGED << result, audio_track, minf, minf_start >>
                     [] b.ident = "hdlr" ->
                          IF data_len < body + 12
                          THEN /\ Return("Err_Io")
                               /\ cursor' = body + 8
                               /\ UNCHANGED << audio_track, mdhd, minf, mdhd_start, minf_start >>
                          ELSE /\ audio_track' = (audio_track \/ b.handler = "soun")
                               /\ cursor' = SkipUnneeded(body + 12, b.extended, b.len - 12)
                               /\ pc' = again
                               /\ UNCHANGED << result, mdhd, minf, mdhd_start, minf_start >>
                     [] b.ident = "minf" ->
                          /\ cursor' = body
                          /\ minf' = TRUE
                          /\ minf_start' = at.start
                          /\ pc' = again
                          /\ UNCHANGED << result, audio_track, mdhd, mdhd_start >>
                     [] OTHER ->
                          /\ cursor' = SkipUnneeded(body, b.extended, b.len)
                          /\ pc' = again
                          /\ UNCHANGED << result, audio_track, mdhd, minf, mdhd_start,
                                          minf_start >>
    /\ UNCHANGED << traks, data_len, trak_index, extraction >>

NextScan ==
    \/ ScanNextTrak
    \/ ScanChild
    \/ CheckAudioTrack

SpecScan == InitScan /\ [][NextScan]_vars

(***************************************************************************)
(* parse_riff_info.  The stream is a row of chunks from offset 0 on: 4     *)
(* bytes of key, 4 of length, and the value.  Chunks::next reads the 8     *)
(* bytes of header; read_cstring reads the value and leaves the cursor     *)
(* after it, and fails when the stream ends before or the value has no     *)
(* terminator.                                                             *)
(***************************************************************************)
\* "IART", "IA09", "iart", "I-RT", "@ART", "I[RT", "I", e-acute, "T", and a
\* key that is not UTF-8
RiffKeys ==
    { <<73, 65, 82, 84>>, <<73, 65, 48, 57>>, <<105, 97, 114, 116>>,
      <<73, 45, 82, 84>>, <<64, 65, 82, 84>>, <<73, 91, 82, 84>>,
      <<73, 195, 169, 84>>, <<73, 65, 82, 255>> }

RiffSizes == {2, 5}
RiffTexts == {"x", "y"}

RiffChunks ==
    [key : RiffKeys, size : RiffSizes, text : RiffTexts, terminated : BOOLEAN]

RiffChunkCounts == 0..2

RiffStreams == UNION { [1..n -> RiffChunks] : n \in RiffChunkCounts }

\* bytes missing at the end of the stream, and the values of argument end
\* besides the end of the stream
RiffTruncations == {0, 1}
RiffEnds == {0, 10, 13, 15}

\* what tag.items holds when parse_riff_info is called
RiffItemsBefore == { <<>>, << << <<73, 65, 82, 84>>, "x" >> >> }

RECURSIVE ChunkStart(_, _)
ChunkStart(stream, i) ==
    IF i = 1 THEN 0 ELSE ChunkStart(stream, i - 1) + 8 + stream[i - 1].size

RiffStreamLen(stream) == ChunkStart(stream, Len(stream) + 1)

\* the index of the chunk whose header starts at offset off, 0 when none does
ChunkAt(stream, off) ==
    LET here == { i \in 1..Len(stream) : ChunkStart(stream, i) = off }
    IN  IF here = {} THEN 0 ELSE CHOOSE i \in here : TRUE

\* String::from_utf8 on the bytes of the key
RECURSIVE Utf8Valid(_)
Utf8Valid(bytes) ==
    IF bytes = <<>> THEN TRUE
    ELSE LET b == bytes[1]
             n == Len(bytes)
             cont(i) == i <= n /\ bytes[i] \in 128..191
             rest(k) == SubSeq(bytes, k + 1, n)
         IN  IF b < 128 THEN Utf8Valid(rest(1))
             ELSE IF b \in 194..223 THEN cont(2) /\ Utf8Valid(rest(2))
             ELSE IF b = 224 THEN n >= 2 /\ bytes[2] \in 160..191 /\ cont(3) /\ Utf8Valid(rest(3))
             ELSE IF b = 237 THEN n >= 2 /\ bytes[2] \in 128..159 /\ cont(3) /\ Utf8Valid(rest(3))
             ELSE IF b \in 225..239 THEN cont(2) /\ cont(3) /\ Utf8Valid(rest(3))
             ELSE IF b = 240
             THEN n >= 2 /\ bytes[2] \in 144..191 /\ cont(3) /\ cont(4) /\ Utf8Valid(rest(4))
             ELSE IF b \in 241..243 THEN cont(2) /\ cont(3) /\ cont(4) /\ Utf8Valid(rest(4))
             ELSE IF b = 244
             THEN n >= 2 /\ bytes[2] \in 128..143 /\ cont(3) /\ cont(4) /\ Utf8Valid(rest(4))
             ELSE FALSE

\* the lower case letters let through
MutInvalidKeyChar(c) == ~(c \in 65..122) /\ ~(c \in 48..57)

\* !('A'..='Z').contains(&c) && !('0'..='9').contains(&c); every byte of a
\* character that is not ASCII is above 127
InvalidKeyChar(c) == ~(c \in 65..90) /\ ~(c \in 48..57)

\* key_str.chars().any(...)
AnyInvalidKeyChar(key) == \E i \in 1..Len(key) : InvalidKeyChar(key[i])

\* an item that is already there is not added again
MutPushItem(list, item) ==
    IF \E i \in 1..Len(list) : list[i] = item THEN list ELSE Append(list, item)

\* tag.items.push(...)
PushItem(list, item) == Append(list, item)

\* the state of read_properties, which parse_riff_info leaves alone
properties ==
    << result, props, file_length, audio_track, mdhd, minf, mdhdFields, stsdLen, pos,
       average_bitrate, object_type, descriptor, entry, traks, trak_index, read, atom,
       mdhd_start, minf_start, headers_read, self >>

InitRiff ==
    /\ pc = "riff"
    /\ reader \in RiffStreams
    /\ \E missing \in RiffTruncations :
          data_len = IF RiffStreamLen(reader) < missing THEN 0
                     ELSE RiffStreamLen(reader) - missing
    /\ end \in { e \in RiffEnds \cup {RiffStreamLen(reader)} : e <= RiffStreamLen(reader) }
    /\ items \in RiffItemsBefore
    /\ hist = << items >>
    /\ chunks = NewChunks
    /\ cursor = 0
    /\ outcome = <<>>
    /\ self = <<>>
    /\ props = DefaultProperties
    /\ result = "running"
    /\ file_length = 0
    /\ audio_track = FALSE
    /\ mdhd = FALSE
    /\ minf = FALSE
    /\ version = 0
    /\ timescale = 0
    /\ duration = 0
    /\ stsdLen = 0
    /\ pos = 0
    /\ average_bitrate = 0
    /\ object_type = None
    /\ descriptor = NoDescriptor
    /\ entry = "none"
    /\ traks = <<>>
    /\ trak_index = 0
    /\ read = 0
    /\ atom = NoAtom
    /\ mdhd_start = 0
    /\ minf_start = 0
    /\ headers_read = 0

\* return from parse_riff_info
RiffReturn(res) ==
    /\ pc' = "returned"
    /\ outcome' = res

(***************************************************************************)
(* Lines 20-42: the test of the while loop and one turn of its body.       *)
(***************************************************************************)
ParseRiffChunk ==
    /\ pc = "riff"
    /\ LET i == ChunkAt(reader, cursor)
       IN  IF cursor = end
           THEN RiffReturn("Ok") /\ UNCHANGED << cursor, chunks, items >>
           ELSE IF i = 0 \/ data_len < cursor + 8
           THEN RiffReturn("Ok") /\ UNCHANGED << cursor, chunks, items >>
           ELSE LET c == reader[i]
                IN  /\ chunks' = [fourcc |-> c.key, size |-> c.size, start |-> Some(cursor)]
                    /\ IF ~Utf8Valid(c.key)
                       THEN /\ RiffReturn("Err_NonUtf8Key")
                            /\ cursor' = cursor + 8
                            /\ items' = items
                       ELSE IF AnyInvalidKeyChar(c.key)
                       THEN /\ RiffReturn("Err_InvalidKeyCharacters")
                            /\ cursor' = cursor + 8
                            /\ items' = items
                       ELSE IF data_len < cursor + 8 + c.size \/ ~c.terminated
                       THEN /\ RiffReturn("Err_ItemValue")
                            /\ cursor' = cursor + 8
                            /\ items' = items
                       ELSE /\ items' = PushItem(items, << c.key, c.text >>)
                            /\ cursor' = cursor + 8 + c.size
                            /\ UNCHANGED << pc, outcome >>
    /\ UNCHANGED << properties, reader, data_len, end, hist >>

NextRiff == ParseRiffChunk

SpecRiff == InitRiff /\ [][NextRiff]_vars

(***************************************************************************)
(* AnyTag.  The fields are public: a call can meet any value of them.      *)
(* outcome holds the last calls, latest first, and hist the tags they were *)
(* made on.                                                                *)
(***************************************************************************)
AnyTags ==
    [ title        : {None, Some("t")},
      artists      : {None, Some(<<>>), Some(<<"a">>)},
      year         : {None, Some(1999)},
      track_number : {None, Some(3)},
      total_tracks : {None, Some(12)},
      disc_number  : {None, Some(1)},
      total_discs  : {None, Some(2), Some(12)} ]

ArtistNames == {"a", "b"}

\* calls already made when another one is made
TagCallsBefore == {0, 1}

\* self.total_tracks
TotalTracks(t) == t.total_tracks

\* pub fn total_discs(&self): self.total_tracks
TotalDiscs(t) == t.total_tracks

\* self.artists.as_deref()
Artists(t) == t.artists

\* self.artists.clone().map(|mut a| { a.push(artist); a }): Option::map gives
\* None for None
AddArtist(t, artist) ==
    LET push(a) == Append(a, artist)
    IN  [t EXCEPT !.artists = { push(a) : a \in t.artists }]

\* the state of read_properties and of parse_riff_info, which a tag leaves alone
untagged ==
    << result, props, file_length, audio_track, mdhd, minf, mdhdFields, stsdLen, pos,
       average_bitrate, object_type, descriptor, entry, scanned, end, items, chunks,
       reader >>

Untagged ==
    /\ result = "running"
    /\ props = DefaultProperties
    /\ file_length = 0
    /\ audio_track = FALSE
    /\ mdhd = FALSE
    /\ minf = FALSE
    /\ version = 0
    /\ timescale = 0
    /\ duration = 0
    /\ stsdLen = 0
    /\ pos = 0
    /\ average_bitrate = 0
    /\ object_type = None
    /\ descriptor = NoDescriptor
    /\ entry = "none"
    /\ ScanIdle
    /\ end = 0
    /\ items = <<>>
    /\ chunks = NewChunks
    /\ reader = <<>>
    /\ outcome = <<>>

\* a call on the tag: what it was called with, what it returned
TagCall(name, argument, returned) ==
    /\ Len(hist) \in TagCallsBefore
    /\ hist' = << self >> \o hist
    /\ outcome' = << [op |-> name, arg |-> argument, value |-> returned] >> \o outcome

InitAnyTag ==
    /\ pc = "anytag"
    /\ self \in AnyTags
    /\ hist = <<>>
    /\ Untagged

AnyTagSetTitle ==
    /\ pc = "anytag"
    /\ \E title \in {"t", "u"} :
          /\ self' = [self EXCEPT !.title = Some(title)]
          /\ TagCall("set_title", title, None)
    /\ UNCHANGED << pc, untagged >>

AnyTagSetArtists ==
    /\ pc = "anytag"
    /\ \E artists \in {<<>>, <<"b">>} :
          /\ self' = [self EXCEPT !.artists = Some(artists)]
          /\ TagCall("set_artists", artists, None)
    /\ UNCHANGED << pc, untagged >>

AnyTagAddArtist ==
    /\ pc = "anytag"
    /\ \E artist \in ArtistNames :
          /\ self' = AddArtist(self, artist)
          /\ TagCall("add_artist", artist, None)
    /\ UNCHANGED << pc, untagged >>

AnyTagSetYear ==
    /\ pc = "anytag"
    /\ \E year \in {2021} :
          /\ self' = [self EXCEPT !.year = Some(year)]
          /\ TagCall("set_year", year, None)
    /\ UNCHANGED << pc, untagged >>

AnyTagArtists ==
    /\ pc = "anytag"
    /\ TagCall("artists", None, Artists(self))
    /\ UNCHANGED << pc, self, untagged >>

AnyTagTotalTracks ==
    /\ pc = "anytag"
    /\ TagCall("total_tracks", None, TotalTracks(self))
    /\ UNCHANGED << pc, self, untagged >>

AnyTagTotalDiscs ==
    /\ pc = "anytag"
    /\ TagCall("total_discs", None, TotalDiscs(self))
    /\ UNCHANGED << pc, self, untagged >>

NextAnyTag ==
    \/ AnyTagSetTitle
    \/ AnyTagSetArtists
    \/ AnyTagAddArtist
    \/ AnyTagSetYear
    \/ AnyTagArtists
    \/ AnyTagTotalTracks
    \/ AnyTagTotalDiscs

SpecAnyTag == InitAnyTag /\ [][NextAnyTag]_vars

(***************************************************************************)
(* Mp4Tag, a wrapper of the tag of the mp4ameta library.  `inner` is read  *)
(* from a file and can hold anything the library reads.  Of the library    *)
(* the model takes what the names of its methods say: set_x stores one     *)
(* value, remove_x and remove_xs remove every value, x() returns a value   *)
(* stored, add_artwork adds an image to those stored, artworks() goes      *)
(* through the images stored in their order.  Which of several images      *)
(* artwork() returns is left open: the first or the last.                  *)
(***************************************************************************)
ImageKinds == {"Png", "Jpeg", "Bmp"}

\* mp4ameta::Data of an image
ImageData(kind, payload) == [kind |-> kind, data |-> payload]

\* a year as the library stores it: the decimal digits of a number, or other text
YearText == { <<"digits", 1999>>, <<"text", "soon">> }

Mp4Artworks ==
    { <<>>, << ImageData("Png", "d1") >>, << ImageData("Jpeg", "d2") >>,
      << ImageData("Bmp", "d3") >>, << ImageData("Png", "d1"), ImageData("Jpeg", "d2") >> }

Mp4Tags ==
    [ title        : {None, Some("t")},
      artists      : {<<>>, <<"a", "b">>},
      year         : {None} \cup { Some(y) : y \in YearText },
      track_number : {None, Some(7)},
      artworks     : Mp4Artworks,
      artwork      : {"first", "last"} ]

\* Picture values handed to the setters
CoverPictures ==
    [ pic_type : {"CoverFront"}, mime_type : {"Png", "Jpeg", "Gif"},
      description : {Some("cover")}, data : {"p"} ]

PictureLists ==
    { <<>>,
      << [pic_type |-> "CoverFront", mime_type |-> "Png", description |-> None, data |-> "p"],
         [pic_type |-> "CoverBack", mime_type |-> "Jpeg", description |-> None, data |-> "q"] >>,
      << [pic_type |-> "Other", mime_type |-> "Gif", description |-> None, data |-> "g"],
         [pic_type |-> "CoverFront", mime_type |-> "Jpeg", description |-> None, data |-> "q"] >> }

\* track as u16
AsU16(v) == v % 65536

\* year.to_string()
YearToString(year) == <<"digits", year>>

\* str::parse(x).ok()
ParseYear(text) == IF text[1] = "digits" THEN Some(text[2]) ELSE None

\* self.inner.title()
Title(t) == t.title

\* self.inner.artist()
Artist(t) == IF t.artists = <<>> THEN None ELSE Some(t.artists[1])

\* self.inner.year().and_then(|x| str::parse(x).ok())
Year(t) == UNION { ParseYear(y) : y \in t.year }

\* self.inner.track_number().map(u32::from)
TrackNumber(t) == t.track_number

\* self.inner.artwork()
Artwork(t) ==
    IF t.artworks = <<>> THEN None
    ELSE IF t.artwork = "first" THEN Some(t.artworks[1])
    ELSE Some(t.artworks[Len(t.artworks)])

\* the Picture made of an image: lines 171-188 and 224-237
PictureOf(d) ==
    IF d.kind \in ImageKinds
    THEN Some([pic_type |-> "Other", mime_type |-> d.kind, description |-> None,
               data |-> d.data])
    ELSE None

FrontCover(t) == UNION { PictureOf(d) : d \in Artwork(t) }

BackCover(t) == FrontCover(t)

RECURSIVE PicturesOf(_)
PicturesOf(artworks) ==
    IF artworks = <<>> THEN <<>>
    ELSE LET p == PictureOf(Head(artworks))
         IN  (IF p = None THEN <<>> ELSE << CHOOSE x \in p : TRUE >>)
                 \o PicturesOf(Tail(artworks))

\* (!(pictures.is_empty())).then(|| Cow::from(pictures))
Pictures(t) ==
    IF PicturesOf(t.artworks) = <<>> THEN None ELSE Some(PicturesOf(t.artworks))

\* the title removed in place of the artists
MutRemoveArtist(t) == [t EXCEPT !.title = None]

\* self.inner.remove_artists()
RemoveArtist(t) == [t EXCEPT !.artists = <<>>]

\* self.inner.remove_artwork()
RemoveArtwork(t) == [t EXCEPT !.artworks = <<>>]

\* set_front_cover: add_artwork for the three MIME types, nothing for another
SetFrontCover(t, cover) ==
    IF cover.mime_type \in ImageKinds
    THEN [t EXCEPT !.artworks = Append(@, ImageData(cover.mime_type, cover.data))]
    ELSE t

\* for p in pictures { self.set_front_cover(p) }
RECURSIVE SetEach(_, _)
SetEach(t, pictures) ==
    IF pictures = <<>> THEN t
    ELSE SetEach(SetFrontCover(t, Head(pictures)), Tail(pictures))

\* set_pictures: remove_pictures, then set_front_cover for each
SetPictures(t, pictures) == SetEach(RemoveArtwork(t), pictures)

InitMp4Tag ==
    /\ pc = "mp4tag"
    /\ self \in Mp4Tags
    /\ hist = <<>>
    /\ Untagged

Mp4TagSetTitle ==
    /\ pc = "mp4tag"
    /\ \E title \in {"u"} :
          /\ self' = [self EXCEPT !.title = Some(title)]
          /\ TagCall(<<"set", "title">>, title, None)
    /\ UNCHANGED << pc, untagged >>

Mp4TagRemoveTitle ==
    /\ pc = "mp4tag"
    /\ self' = [self EXCEPT !.title = None]
    /\ TagCall(<<"remove", "title">>, None, None)
    /\ UNCHANGED << pc, untagged >>

Mp4TagSetArtist ==
    /\ pc = "mp4tag"
    /\ \E artist \in {"c"} :
          /\ self' = [self EXCEPT !.artists = << artist >>]
          /\ TagCall(<<"set", "artist">>, artist, None)
    /\ UNCHANGED << pc, untagged >>

Mp4TagRemoveArtist ==
    /\ pc = "mp4tag"
    /\ self' = RemoveArtist(self)
    /\ TagCall(<<"remove", "artist">>, None, None)
    /\ UNCHANGED << pc, untagged >>

Mp4TagSetYear ==
    /\ pc = "mp4tag"
    /\ \E year \in {2021} :
          /\ self' = [self EXCEPT !.year = Some(YearToString(year))]
          /\ TagCall(<<"set", "year">>, year, None)
    /\ UNCHANGED << pc, untagged >>

Mp4TagRemoveYear ==
    /\ pc = "mp4tag"
    /\ self' = [self EXCEPT !.year = None]
    /\ TagCall(<<"remove", "year">>, None, None)
    /\ UNCHANGED << pc, untagged >>

Mp4TagSetTrackNumber ==
    /\ pc = "mp4tag"
    /\ \E track \in {9, 65545} :
          /\ self' = [self EXCEPT !.track_number = Some(AsU16(track))]
          /\ TagCall(<<"set", "track_number">>, track, None)
    /\ UNCHANGED << pc, untagged >>

Mp4TagRemoveTrackNumber ==
    /\ pc = "mp4tag"
    /\ self' = [self EXCEPT !.track_number = None]
    /\ TagCall(<<"remove", "track_number">>, None, None)
    /\ UNCHANGED << pc, untagged >>

Mp4TagSetFrontCover ==
    /\ pc = "mp4tag"
    /\ \E cover \in CoverPictures :
          /\ self' = SetFrontCover(self, cover)
          /\ TagCall(<<"set", "front_cover">>, cover, None)
    /\ UNCHANGED << pc, untagged >>

Mp4TagRemoveFrontCover ==
    /\ pc = "mp4tag"
    /\ self' = RemoveArtwork(self)
    /\ TagCall(<<"remove", "front_cover">>, None, None)
    /\ UNCHANGED << pc, untagged >>

\* self.set_front_cover(cover)
Mp4TagSetBackCover ==
    /\ pc = "mp4tag"
    /\ \E cover \in CoverPictures :
          /\ self' = SetFrontCover(self, cover)
          /\ TagCall(<<"set", "back_cover">>, cover, None)
    /\ UNCHANGED << pc, untagged >>

Mp4TagSetPictures ==
    /\ pc = "mp4tag"
    /\ \E pictures \in PictureLists :
          /\ self' = SetPictures(self, pictures)
          /\ TagCall(<<"set", "pictures">>, pictures, None)
    /\ UNCHANGED << pc, untagged >>

Mp4TagRemovePictures ==
    /\ pc = "mp4tag"
    /\ self' = RemoveArtwork(self)
    /\ TagCall(<<"remove", "pictures">>, None, None)
    /\ UNCHANGED << pc, untagged >>

NextMp4Tag ==
    \/ Mp4TagSetTitle
    \/ Mp4TagRemoveTitle
    \/ Mp4TagSetArtist
    \/ Mp4TagRemoveArtist
    \/ Mp4TagSetYear
    \/ Mp4TagRemoveYear
    \/ Mp4TagSetTrackNumber
    \/ Mp4TagRemoveTrackNumber
    \/ Mp4TagSetFrontCover
    \/ Mp4TagRemoveFrontCover
    \/ Mp4TagSetBackCover
    \/ Mp4TagSetPictures
    \/ Mp4TagRemovePictures

SpecMp4Tag == InitMp4Tag /\ [][NextMp4Tag]_vars

(***************************************************************************)
(* Descriptor::read on its own: every reader of at most                    *)
(* MaxDescriptorStream bytes over DescriptorBytes.                         *)
(***************************************************************************)
DescriptorBytes == {2, 5, 127, 128, 129, 255}

DescriptorStreams == UNION { [1..n -> DescriptorBytes] : n \in 0..MaxDescriptorStream }

\* The variables of read_properties, which a call checked on its own leaves alone.
Idle ==
    /\ result = "running"
    /\ file_length = 0
    /\ audio_track = FALSE
    /\ mdhd = FALSE
    /\ minf = FALSE
    /\ version = 0
    /\ timescale = 0
    /\ duration = 0
    /\ stsdLen = 0
    /\ pos = 0
    /\ average_bitrate = 0
    /\ object_type = None
    /\ descriptor = NoDescriptor
    /\ entry = "none"
    /\ outcome = <<>>
    /\ ScanIdle
    /\ ApartIdle

InitDescriptor ==
    /\ pc = "descriptor_call"
    /\ reader \in DescriptorStreams
    /\ props = DefaultProperties
    /\ Idle

DescriptorCall ==
    /\ pc = "descriptor_call"
    /\ pc' = "returned"
    /\ outcome' = DescriptorRead(reader)
    /\ descriptor' = IF outcome'.ok
                     THEN [tag |-> outcome'.tag, size |-> outcome'.size]
                     ELSE descriptor
    /\ UNCHANGED << result, props, inputs, mdhdFields, entry, stsdLen, pos,
                    average_bitrate, object_type, reader >>

NextDescriptor == DescriptorCall

SpecDescriptor == InitDescriptor /\ [][NextDescriptor]_vars

(***************************************************************************)
(* Lines 439-471 on their own: every pair of first bytes, with and without *)
(* the three bytes that follow.                                            *)
(***************************************************************************)
ConfigTails == {<<>>, ConfigTail}

ConfigStreams == { <<a, b>> \o t : a \in Byte, b \in Byte, t \in ConfigTails }

InitConfig ==
    /\ pc = "config_call"
    /\ reader \in ConfigStreams
    /\ props \in { [DefaultProperties EXCEPT !.codec = "AAC", !.channels = 2,
                                             !.sample_rate = sr] : sr \in {12345} }
    /\ Idle

ConfigCall ==
    /\ pc = "config_call"
    /\ pc' = "returned"
    /\ LET r == DecodeSpecificConfig(reader, props.sample_rate)
       IN  /\ outcome' = [status |-> r.status, consumed |-> r.consumed,
                          given_rate |-> props.sample_rate]
           /\ object_type' = r.object_type
           /\ props' = ApplySpecificConfig(props, r)
    /\ UNCHANGED << result, inputs, mdhdFields, entry, stsdLen, pos,
                    average_bitrate, descriptor, reader >>

NextConfig == ConfigCall

SpecConfig == InitConfig /\ [][NextConfig]_vars

(***************************************************************************)
(* Lines 290-320 on their own, with the fields of the media header at      *)
(* their full width.  A u64 is held as four 16-bit limbs, the least        *)
(* significant first, so that duration * 1000 is computed as the u64       *)
(* multiplication computes it: the bits above 2^64 are lost in a build     *)
(* without overflow checks, and the program aborts in a build with them.   *)
(* The stream holds the whole body.                                        *)
(***************************************************************************)
LimbBase == 65536

\* limbs of a u64
LimbCount == 4

LimbValues == {0, 1000, 65535}

\* timescales; the division by limbs needs them below 2^15
WideTimescales == {0, 1, 3, 1000}

\* a body read by lines 292-312: a version 0 body has a 32-bit duration
MdhdBodies ==
    { b \in [ version : Versions, timescale : WideTimescales,
              duration : [1..LimbCount -> LimbValues], overflow_checks : BOOLEAN ] :
        b.version = 0 => \A i \in 3..LimbCount : b.duration[i] = 0 }

\* limbs * m + carry, one limb longer than limbs
RECURSIVE MulLimbs(_, _, _)
MulLimbs(limbs, m, carry) ==
    IF limbs = <<>> THEN << carry >>
    ELSE LET p == Head(limbs) * m + carry
         IN  << p % LimbBase >> \o MulLimbs(Tail(limbs), m, p \div LimbBase)

\* (rem * LimbBase^Len(limbs) + limbs) / t, from the most significant limb down
RECURSIVE DivLimbs(_, _, _)
DivLimbs(limbs, t, rem) ==
    IF limbs = <<>> THEN <<>>
    ELSE LET n   == Len(limbs)
             cur == rem * LimbBase + limbs[n]
         IN  DivLimbs(SubSeq(limbs, 1, n - 1), t, cur % t) \o << cur \div t >>

\* duration * 1000 of line 314: the product, and whether it passes 2^64
WideProduct(d) ==
    LET p == MulLimbs(d, 1000, 0)
    IN  [ wrapped |-> SubSeq(p, 1, LimbCount), overflow |-> p[LimbCount + 1] # 0 ]

\* duration * 1000 / u64::from(timescale) of line 314 where the product wraps
WideDurationMillis(d, t) == DivLimbs(WideProduct(d).wrapped, t, 0)

InitMdhd ==
    /\ pc = "mdhd_call"
    /\ reader \in MdhdBodies
    /\ props = DefaultProperties
    /\ Idle

MdhdCall ==
    /\ pc = "mdhd_call"
    /\ pc' = "mdhd_returned"
    /\ version' = reader.version
    /\ timescale' = reader.timescale
    /\ duration' = [i \in 1..LimbCount |-> reader.duration[i]]
    /\ IF (WideProduct(duration').overflow /\ reader.overflow_checks) \/ timescale' = 0
       THEN result' = "panic" /\ props' = props
       ELSE /\ result' = result
            /\ props' = [props EXCEPT !.duration = WideDurationMillis(duration', timescale')]
    /\ UNCHANGED << inputs, entry, stsdLen, pos, average_bitrate, object_type,
                    descriptor, harness >>

NextMdhd == MdhdCall

SpecMdhd == InitMdhd /\ [][NextMdhd]_vars

(***************************************************************************)
(* Properties.                                                             *)
(***************************************************************************)

\* C1: for a version 0 media header with timescale t > 0 and duration d, the
\* duration of the properties is floor(d * 1000 / t) milliseconds.
C1_Version0Duration ==
    (version = 0 /\ timescale > 0)
        => props.duration = (duration * 1000) \div timescale

C1_Witness ==
    /\ result = "Ok"
    /\ version = 0
    /\ timescale = 1000
    /\ duration = 5000
    /\ props.duration = 5000

\* The length bytes Descriptor::read is to take from a reader whose bytes
\* after the tag are lens: up to the first byte below 128, at most 4; 0 when
\* the reader ends before.
LengthBytes(lens) ==
    LET stops == { i \in 1..Min(4, Len(lens)) : lens[i] < 128 }
    IN  IF stops # {} THEN CHOOSE i \in stops : \A j \in stops : i <= j
        ELSE IF Len(lens) >= 4 THEN 4
        ELSE 0

\* The low 7 bits of lens[1..n], most significant first.
RECURSIVE Base128(_, _)
Base128(lens, n) ==
    IF n = 0 THEN 0 ELSE (Base128(lens, n - 1) * 128) + (lens[n] % 128)

\* C2: Descriptor::read takes one tag byte and then 1 to 4 length bytes,
\* stopping after the first one whose high bit is clear or after the 4th; the
\* size is the low 7 bits of the bytes taken, most significant first.  It
\* fails exactly when the reader ends before that.
C2_DescriptorSize ==
    pc = "returned" =>
        IF Len(reader) = 0 \/ LengthBytes(Tail(reader)) = 0
        THEN ~outcome.ok
        ELSE LET n == LengthBytes(Tail(reader))
             IN  /\ outcome.ok
                 /\ outcome.tag = reader[1]
                 /\ n \in 1..4
                 /\ outcome.consumed = 1 + n
                 /\ outcome.size = Base128(Tail(reader), n)

\* the fourth length byte still has its high bit set, and the read stops
C2_Witness ==
    /\ pc = "returned"
    /\ Len(reader) = 5
    /\ reader[5] >= 128
    /\ outcome.ok
    /\ outcome.consumed = 5

\* C3: when the top 5 bits of byte 0 are 31, the object type is 32 plus the
\* 6 bits that follow: the low 3 bits of byte 0, then the top 3 of byte 1.
C3_EscapedObjectType ==
    (pc = "returned" /\ Len(reader) >= 2 /\ reader[1] \div 8 = 31)
        => object_type = Some(32 + ((reader[1] % 8) * 8) + (reader[2] \div 32))

\* The 4 bits after the object type: after the 5-bit type, or after the 6-bit
\* extension of an escaped one.
SampleRateIndexBits(a, b) ==
    IF a \div 8 = 31 THEN (b \div 2) % 16 ELSE ((a % 8) * 2) + (b \div 128)

\* C4: when the sample rate index is 15 the three bytes of the explicit rate
\* are read and the sample rate is no longer the one of the mp4a fixed fields
\* nor one of the table.
C4_ExplicitRateRead ==
    (/\ pc = "returned"
     /\ Len(reader) >= 5
     /\ SampleRateIndexBits(reader[1], reader[2]) = 15
     /\ outcome.status = "Ok")
        => outcome.consumed = 5

\* C5: for an object type that is not escaped, an index of 0..12 gives the
\* entry of the table and an index of 13 or 14 keeps the rate read before.
C5_TableRate ==
    (/\ pc = "returned"
     /\ Len(reader) >= 2
     /\ reader[1] \div 8 # 31
     /\ outcome.status = "Ok")
        => LET i == SampleRateIndexBits(reader[1], reader[2])
               table == << 96000, 88200, 64000, 48000, 44100, 32000, 24000,
                           22050, 16000, 12000, 11025, 8000, 7350 >>
           IN  /\ i <= 12 => props.sample_rate = table[i + 1]
               /\ i \in {13, 14} => props.sample_rate = outcome.given_rate

\* C6: an object type outside the registry ends read_properties with the
\* decode error for an invalid audio object type; the type is not stored.
C6_InvalidObjectType ==
    \A v \in object_type :
        (v \in {0, 10, 11, 18, 31} \/ v > 46)
            => /\ pc = "done"
               /\ result = "Err_InvalidObjectType"
               /\ props.extended_audio_object_type = None

C6_Witness ==
    /\ object_type = Some(18)
    /\ result = "Err_InvalidObjectType"

C8_NoAbort == result # "panic"

\* C9 as stated: alac_properties changes nothing and succeeds when the bytes
\* from the current position to the end are not 80.
C9_RemainingNot80 ==
    [][ (pc = "alac" /\ stsdLen - pos # 80)
            => (pc' = "done" /\ result' = "Ok" /\ props' = props) ]_vars

\* C9 amended: alac_properties changes nothing and succeeds when the length
\* of the whole reader is not 80.
C9_LengthNot80 ==
    [][ (pc = "alac" /\ stsdLen # 80)
            => (pc' = "done" /\ result' = "Ok" /\ props' = props) ]_vars

\* 80 bytes follow the entry's header, the reader is 96 long, nothing is extracted
C9_Witness ==
    /\ pc = "done"
    /\ entry = "alac"
    /\ stsdLen = 96
    /\ pos = stsdLen
    /\ result = "Ok"
    /\ props.codec = "Unknown"
    /\ props.bit_depth = None

RECURSIVE Starts(_, _)
Starts(boxes, base) ==
    IF boxes = <<>> THEN {}
    ELSE {base} \cup Starts(Tail(boxes), base + Head(boxes).len)

\* the headers of the immediate children of the mdia of track i
ImmediateStarts(ts, i) == Starts(Children(ts[i]), MdiaStart(ts, i) + 8)

HasHandler(boxes, h) ==
    \E k \in 1..Len(boxes) : boxes[k].ident = "hdlr" /\ boxes[k].handler = h

\* the hdlr of the mdia of track i has handler type soun
SounTrak(ts, i) == HasHandler(Children(ts[i]), "soun")

\* a box of the mdia of track i holds an hdlr of type soun
SounInside(ts, i) ==
    \E k \in 1..Len(Children(ts[i])) : HasHandler(Children(ts[i])[k].nested, "soun")

\* the first track in order whose hdlr has handler type soun, 0 when there is none
AudioTrak(ts) ==
    LET soun == { i \in 1..Len(ts) : SounTrak(ts, i) }
    IN  IF soun = {} THEN 0 ELSE CHOOSE i \in soun : \A j \in soun : i <= j

C18_BoxesOfAudioTrack ==
    (pc = "mdhd" /\ AudioTrak(traks) # 0)
        => /\ mdhd_start \in ImmediateStarts(traks, AudioTrak(traks))
           /\ minf => minf_start \in ImmediateStarts(traks, AudioTrak(traks))
           /\ trak_index <= AudioTrak(traks)

\* C19: after each header read of the loop over a media box, the box read is
\* an immediate child of that media box, the cursor is at the header of its
\* next sibling, the counter equals the bytes of the media box consumed, and
\* no more headers were read than the media box has immediate children.
C19_ImmediateChildrenOnly ==
    (pc \in {"mdia", "traks"} /\ headers_read > 0)
        => /\ atom.start \in ImmediateStarts(traks, trak_index)
           /\ cursor = atom.start + atom.len
           /\ read = cursor - MdiaStart(traks, trak_index)
           /\ headers_read <= Len(Children(traks[trak_index]))

\* every character of the key is one of A-Z and 0-9
UpperOrDigitKey(key) ==
    \A i \in 1..Len(key) : (key[i] >= 65 /\ key[i] <= 90) \/ (key[i] >= 48 /\ key[i] <= 57)

RiffKeyErrors == {"Err_NonUtf8Key", "Err_InvalidKeyCharacters"}

\* C12: the key of a chunk whose header parse_riff_info has read is accepted
\* exactly when each of its characters is in A-Z or 0-9; any other key ends
\* the call with a decode error about the key, for every length and content of
\* the value, and no accepted key gives such an error.
C12_KeyValidation ==
    chunks.start # None
        => /\ ~UpperOrDigitKey(chunks.fourcc)
                => (pc = "returned" /\ outcome \in RiffKeyErrors)
           /\ UpperOrDigitKey(chunks.fourcc)
                => (pc = "returned" => outcome \notin RiffKeyErrors)

\* "iart" rejected
C12_Witness ==
    /\ pc = "returned"
    /\ outcome = "Err_InvalidKeyCharacters"
    /\ chunks.fourcc = <<105, 97, 114, 116>>
    /\ chunks.size = 5

\* the first k chunks of the stream as items
ItemsOf(stream, k) == [ i \in 1..k |-> << stream[i].key, stream[i].text >> ]

\* C13: at every point of a call of parse_riff_info, and after it whatever
\* its result, tag.items is the list of before the call followed by the chunks
\* parsed so far, in the order of the stream and with duplicates; the keys
\* appended are not empty and hold only A-Z and 0-9.
C13_ItemsAppended ==
    (pc \in {"riff", "returned"} /\ hist # <<>>)
        => LET k == Len(items) - Len(hist[1])
           IN  /\ k >= 0
               /\ k <= Len(reader)
               /\ items = hist[1] \o ItemsOf(reader, k)
               /\ pc = "riff" => cursor = ChunkStart(reader, k + 1)
               /\ \A i \in 1..k : reader[i].key # <<>> /\ UpperOrDigitKey(reader[i].key)

\* a second "IART" "x" appended after the one of before the call, then a failure
C13_Witness ==
    /\ pc = "returned"
    /\ outcome = "Err_InvalidKeyCharacters"
    /\ Len(hist[1]) = 1
    /\ Len(items) = 2
    /\ items[1] = items[2]

\* C20: parse_riff_info reads no chunk header that starts at or after end.
C20_NoHeaderAtOrAfterEnd ==
    \A at \in chunks.start : at < end

\* C16: total_discs() returns the total_discs field, whatever total_tracks holds.
C16_TotalDiscsField ==
    (pc = "anytag" /\ outcome # <<>> /\ outcome[1].op = "total_discs")
        => outcome[1].value = self.total_discs

\* C17: after add_artist(a) the artists are present, a is the last of them and
\* the artists of before the call come before it in their order; with no
\* artists before the call, a is the only one.
C17_ArtistAppended ==
    (pc = "anytag" /\ outcome # <<>> /\ outcome[1].op = "add_artist")
        => LET before == IF hist[1].artists = None THEN <<>>
                         ELSE CHOOSE a \in hist[1].artists : TRUE
           IN  Artists(self) = Some(before \o << outcome[1].arg >>)

\* what the getters of a tag return
Getters(t) ==
    [ title |-> Title(t), artist |-> Artist(t), year |-> Year(t),
      track_number |-> TrackNumber(t), front_cover |-> FrontCover(t),
      back_cover |-> BackCover(t), pictures |-> Pictures(t) ]

RECURSIVE FirstSupported(_)
FirstSupported(pictures) ==
    IF pictures = <<>> THEN None
    ELSE IF Head(pictures).mime_type \in {"Png", "Jpeg", "Bmp"}
    THEN Some([mime_type |-> Head(pictures).mime_type, data |-> Head(pictures).data])
    ELSE FirstSupported(Tail(pictures))

\* MIME type and payload of the pictures a getter returns
Shown(option) == { [mime_type |-> p.mime_type, data |-> p.data] : p \in option }

\* C15: after set_front_cover(p), p being PNG, JPEG or BMP, front_cover()
\* returns a picture of p's MIME type and payload and pictures() holds it;
\* after set_pictures(ps), front_cover() returns the first supported picture
\* of ps.
C15_CoverObservesWrites ==
    (pc = "mp4tag" /\ outcome # <<>>)
        => /\ (/\ outcome[1].op = <<"set", "front_cover">>
               /\ outcome[1].arg.mime_type \in {"Png", "Jpeg", "Bmp"})
                  => /\ Shown(FrontCover(self)) = FirstSupported(<< outcome[1].arg >>)
                     /\ \E ps \in Pictures(self) : \E i \in 1..Len(ps) :
                           Shown({ps[i]}) = FirstSupported(<< outcome[1].arg >>)
           /\ outcome[1].op = <<"set", "pictures">>
                  => Shown(FrontCover(self)) = FirstSupported(outcome[1].arg)

\* floor(d * 1000 / t) of a duration d held as limbs, one limb longer than d
FloorMillis(d, t) == DivLimbs(MulLimbs(d, 1000, 0), t, 0)

\* C21: for a version 1 media header with timescale t > 0 and any 64-bit
\* duration d, the duration computed is floor(d * 1000 / t) milliseconds, and
\* the product d * 1000 neither wraps nor aborts the program.
C21_Version1Duration ==
    (pc = "mdhd_returned" /\ version = 1 /\ timescale > 0)
        => /\ result # "panic"
           /\ ~WideProduct(duration).overflow
           /\ props.duration \o << 0 >> = FloorMillis(duration, timescale)

=============================================================================
